---- MODULE Spec2Model ----
(***************************************************************************)
(* Model of examples/Pmat_to_camera.py: KRT_from_P (decomposition of a    *)
(* 3x4 projection matrix P into K, R, T) and rf_rq (RQ decomposition      *)
(* through numpy.linalg.qr on the reversed, transposed matrix).           *)
(*                                                                         *)
(* Numbers are exact extended rationals <<n, d>>: d > 0 is the reduced    *)
(* fraction n/d, <<1,0>> and <<-1,0>> are +inf and -inf, <<0,0>> is nan   *)
(* (what numpy's float division by zero produces).  Rounding is not       *)
(* modelled.  numpy arrays are buffers of a heap and the program's        *)
(* variables are views on them, so that in-place updates reach whatever   *)
(* buffer the view aliases.                                               *)
(*                                                                         *)
(* numpy.linalg.qr is modelled by its contract: any pair (q, r) with q    *)
(* orthogonal, r upper triangular and q r equal to the argument.  For a   *)
(* nonsingular argument these are the eight sign choices of r's diagonal. *)
(* Each behaviour makes two calls of KRT_from_P, the second on a scalar   *)
(* multiple of the first call's matrix.                                   *)
(***************************************************************************)
EXTENDS Integers, Sequences, FiniteSets, TLC

\* ------------------------------------------------------------------------
\* Bounds of the inputs
\* ------------------------------------------------------------------------
MaxDiag == 2
MaxOff == 1

\* ------------------------------------------------------------------------
\* Extended rational arithmetic (numpy float64 without rounding)
\* ------------------------------------------------------------------------
Abs(n) == IF n < 0 THEN -n ELSE n

Sgn(n) == IF n < 0 THEN -1 ELSE IF n > 0 THEN 1 ELSE 0

RECURSIVE GCD(_, _)
GCD(a, b) == IF b = 0 THEN a ELSE GCD(b, a % b)

Norm(n, d) ==
    IF d = 0 THEN <<Sgn(n), 0>>
    ELSE LET g == GCD(Abs(n), Abs(d))
         IN  <<(Sgn(n) * Sgn(d)) * (Abs(n) \div g), Abs(d) \div g>>

Q(n) == <<n, 1>>

Zero == Q(0)

One == Q(1)

NaN == <<0, 0>>

IsFinite(x) == x[2] # 0

RMul(x, y) == Norm(x[1] * y[1], x[2] * y[2])

RAdd(x, y) ==
    IF x[2] = 0 /\ y[2] = 0
    THEN (IF x[1] = y[1] THEN x ELSE NaN)
    ELSE Norm(x[1] * y[2] + y[1] * x[2], x[2] * y[2])

RNeg(x) == <<-x[1], x[2]>>

RSub(x, y) == RAdd(x, RNeg(y))

RDiv(x, y) == Norm(x[1] * y[2], x[2] * y[1])

\* numpy.sign: -1, 0, +1, and nan for nan
RSign(x) == IF x = NaN THEN NaN ELSE Q(Sgn(x[1]))

\* the comparison x < 0 (False for nan)
RLt0(x) == x[1] < 0

RGt0(x) == x[1] > 0

\* ------------------------------------------------------------------------
\* Matrices: tuples of rows; a vector is a 3x1 matrix (numpy.matrix)
\* ------------------------------------------------------------------------
Null == <<>>

Rows(A) == Len(A)

ColsOf(A) == Len(A[1])

\* the array with the entries f[1], ..., f[n], each computed once
Strict(f, n) ==
    IF n = 1 THEN <<f[1]>>
    ELSE IF n = 3 THEN <<f[1], f[2], f[3]>>
    ELSE <<f[1], f[2], f[3], f[4]>>

RECURSIVE SumTo(_, _)
SumTo(f, n) == IF n = 0 THEN Zero ELSE RAdd(SumTo(f, n - 1), f[n])

MatMul(A, B) ==
    Strict([i \in 1..Rows(A) |->
        Strict([j \in 1..ColsOf(B) |->
            SumTo([l \in 1..ColsOf(A) |-> RMul(A[i][l], B[l][j])], ColsOf(A))],
            ColsOf(B))], Rows(A))

Scale(c, A) ==
    Strict([i \in 1..Rows(A) |->
        Strict([j \in 1..ColsOf(A) |->
            RMul(c, A[i][j])],
            ColsOf(A))], Rows(A))

DivBy(A, c) ==
    Strict([i \in 1..Rows(A) |->
        Strict([j \in 1..ColsOf(A) |->
            RDiv(A[i][j], c)],
            ColsOf(A))], Rows(A))

MatNeg(A) ==
    Strict([i \in 1..Rows(A) |->
        Strict([j \in 1..ColsOf(A) |->
            RNeg(A[i][j])],
            ColsOf(A))], Rows(A))

\* A.T
Transpose(A) ==
    Strict([i \in 1..ColsOf(A) |->
        Strict([j \in 1..Rows(A) |->
            A[j][i]],
            Rows(A))], ColsOf(A))

\* A[::-1, ::-1]
Flip(A) ==
    Strict([i \in 1..Rows(A) |->
        Strict([j \in 1..ColsOf(A) |->
            A[Rows(A) + 1 - i][ColsOf(A) + 1 - j]],
            ColsOf(A))], Rows(A))

\* A[:, 0:N]
Lead(A) ==
    Strict([i \in 1..Rows(A) |->
        Strict([j \in 1..3 |->
            A[i][j]],
            3)], Rows(A))

\* A[:, -1]
LastCol(A) ==
    Strict([i \in 1..Rows(A) |->
        Strict([j \in 1..1 |->
            A[i][ColsOf(A)]],
            1)], Rows(A))

\* [A | t]
Augment(A, t) ==
    Strict([i \in 1..Rows(A) |->
        Strict([j \in 1..ColsOf(A) + 1 |->
            IF j <= ColsOf(A) THEN A[i][j] ELSE t[i][1]],
            ColsOf(A) + 1)], Rows(A))

NegCol(A, c) ==
    Strict([i \in 1..Rows(A) |->
        Strict([j \in 1..ColsOf(A) |->
            IF j = c THEN RNeg(A[i][j]) ELSE A[i][j]],
            ColsOf(A))], Rows(A))

NegRow(A, r) ==
    Strict([i \in 1..Rows(A) |->
        Strict([j \in 1..ColsOf(A) |->
            IF i = r THEN RNeg(A[i][j]) ELSE A[i][j]],
            ColsOf(A))], Rows(A))

Ident ==
    Strict([i \in 1..3 |->
        Strict([j \in 1..3 |->
            IF i = j THEN One ELSE Zero],
            3)], 3)

IntMat(A) ==
    Strict([i \in 1..Len(A) |->
        Strict([j \in 1..Len(A[1]) |->
            Q(A[i][j])],
            Len(A[1]))], Len(A))

\* numpy.linalg.det of a 3x3 matrix
Det3(A) ==
    LET m(a, b, c, d) == RSub(RMul(a, d), RMul(b, c))
    IN  RAdd(RSub(RMul(A[1][1], m(A[2][2], A[2][3], A[3][2], A[3][3])),
                  RMul(A[1][2], m(A[2][1], A[2][3], A[3][1], A[3][3]))),
             RMul(A[1][3], m(A[2][1], A[2][2], A[3][1], A[3][2])))

IsUpper(A) == A[2][1] = Zero /\ A[3][1] = Zero /\ A[3][2] = Zero

AllFinite(A) == \A i \in 1..Rows(A) : \A j \in 1..ColsOf(A) : IsFinite(A[i][j])

\* ------------------------------------------------------------------------
\* The library primitives
\* ------------------------------------------------------------------------
\* Orthogonal matrices with exactly representable entries: rows are unit
\* vectors over {0, +-1, +-3/5, +-4/5}, pairwise orthogonal.
Entries == {Q(0), Q(1), Q(-1), <<3, 5>>, <<-3, 5>>, <<4, 5>>, <<-4, 5>>}

Dot(a, b) == RAdd(RAdd(RMul(a[1], b[1]), RMul(a[2], b[2])), RMul(a[3], b[3]))

UnitVecs == {v \in Entries \X Entries \X Entries : Dot(v, v) = One}

OrthSet ==
    UNION { UNION { { <<a, b, c>> : c \in {x \in UnitVecs : Dot(a, x) = Zero /\ Dot(b, x) = Zero} }
                    : b \in {y \in UnitVecs : Dot(a, y) = Zero} }
            : a \in UnitVecs }

\* numpy.linalg.qr(M, 'complete'): any q, r with q orthogonal, r upper
\* triangular and q r = M (r = q^T M); the signs of r's diagonal are the
\* primitive's choice.
ColDot(A, i, B, j) == SumTo([l \in 1..3 |-> RMul(A[l][i], B[l][j])], 3)

QRResults(M) ==
    { <<q, MatMul(Transpose(q), M)>> :
        q \in { x \in OrthSet : /\ ColDot(x, 2, M, 1) = Zero
                                /\ ColDot(x, 3, M, 1) = Zero
                                /\ ColDot(x, 3, M, 2) = Zero } }

\* the cofactor C[i][j] of a 3x3 matrix
Cofactor(A, i, j) ==
    LET r1 == IF i = 1 THEN 2 ELSE 1
        r2 == IF i = 3 THEN 2 ELSE 3
        c1 == IF j = 1 THEN 2 ELSE 1
        c2 == IF j = 3 THEN 2 ELSE 3
        m  == RSub(RMul(A[r1][c1], A[r2][c2]), RMul(A[r1][c2], A[r2][c1]))
    IN  IF (i + j) % 2 = 0 THEN m ELSE RNeg(m)

ReplaceCol(A, c, b) ==
    Strict([i \in 1..3 |->
        Strict([j \in 1..3 |->
            IF j = c THEN b[i][1] ELSE A[i][j]],
            3)], 3)

\* the solution of A x = b for nonsingular A (Cramer's rule)
Solve3(A, b) ==
    LET d == Det3(A)
    IN  Strict([i \in 1..3 |-> Strict([j \in 1..1 |-> RDiv(Det3(ReplaceCol(A, i, b)), d)], 1)], 3)

FrobSq(A) ==
    SumTo([i \in 1..3 |-> SumTo([j \in 1..3 |-> RMul(A[i][j], A[i][j])], 3)], 3)

\* numpy.linalg.lstsq(A, b)[0]: the minimum-norm minimiser of |A x - b|.
\*   rank 3: the exact solution;
\*   rank 2: with n a null vector of A (a nonzero row of the cofactor
\*           matrix), the solution of (A^T A + n n^T) x = A^T b;
\*   rank 1: A^T b / |A|_F^2;      rank 0: the zero vector.
Lstsq(A, b) ==
    LET At  == Transpose(A)
        Atb == MatMul(At, b)
        nz  == {i \in 1..3 : \E j \in 1..3 : Cofactor(A, i, j) # Zero}
    IN  IF Det3(A) # Zero THEN Solve3(A, b)
        ELSE IF nz # {}
        THEN LET i0 == CHOOSE i \in nz : \A i2 \in nz : i <= i2
                 nn(i, j) == RMul(Cofactor(A, i0, i), Cofactor(A, i0, j))
                 AtA == MatMul(At, A)
                 B(i, j) == RAdd(AtA[i][j], nn(i, j))
             IN  Solve3(Strict([i \in 1..3 |-> Strict([j \in 1..3 |-> B(i, j)], 3)], 3), Atb)
        ELSE IF FrobSq(A) # Zero THEN DivBy(Atb, FrobSq(A))
        ELSE Strict([i \in 1..3 |-> Strict([j \in 1..1 |-> Zero], 1)], 3)

\* ------------------------------------------------------------------------
\* Arrays and views
\* ------------------------------------------------------------------------
\* A view names a buffer and how it is read: the leading three columns
\* (sl), transposed (tr), reversed along both axes (fl).
View(b) == [buf |-> b, sl |-> FALSE, tr |-> FALSE, fl |-> FALSE]

NoView == View("none")

\* v[:, 0:3]
SliceView(v) == [v EXCEPT !.sl = TRUE]

\* v.T
TView(v) == [v EXCEPT !.tr = ~@]

\* v[::-1, ::-1]
FlipView(v) == [v EXCEPT !.fl = ~@]

ReadView(h, v) ==
    LET m0 == IF v.sl THEN Lead(h[v.buf]) ELSE h[v.buf]
        m1 == IF v.tr THEN Transpose(m0) ELSE m0
    IN  IF v.fl THEN Flip(m1) ELSE m1

WriteView(h, v, m) ==
    LET m1 == IF v.fl THEN Flip(m) ELSE m
        m0 == IF v.tr THEN Transpose(m1) ELSE m1
        old == h[v.buf]
        new == Strict([i \in 1..Rows(old) |-> Strict([j \in 1..ColsOf(old) |->
                  IF j <= 3 THEN m0[i][j] ELSE old[i][j]], ColsOf(old))], Rows(old))
    IN  [h EXCEPT ![v.buf] = IF v.sl THEN new ELSE m0]

\* numpy.linalg.qr returns freshly allocated arrays
QOut(in) == View("q")

\* a factorization that overwrites its argument
ROutInPlace(in) == in

ROut(in) == View("r")

\* ------------------------------------------------------------------------
\* Inputs
\* ------------------------------------------------------------------------
UpperTri(a, b, c, s, u, v) == IntMat(<< <<a, s, u>>, <<0, b, v>>, <<0, 0, c>> >>)

\* intrinsic matrices with positive diagonal
KGens ==
    { UpperTri(a, a + 1, c, o, 2 * o, o + 1) :
        a \in 1..MaxDiag, c \in 1..MaxDiag, o \in 0..MaxOff }

\* triangular factors of singular matrices: a zero in each diagonal place
SingGens ==
    { UpperTri(1, 0, 1, 1, 0, 0),
      UpperTri(0, 2, 1, 1, 0, 1),
      UpperTri(1, 1, 0, 0, 1, 1) }

RotTest2 == IntMat(<< <<1, 0, 0>>, <<0, -1, 0>>, <<0, 0, -1>> >>)

RotGens ==
    { Ident,
      RotTest2,
      IntMat(<< <<0, 0, 1>>, <<1, 0, 0>>, <<0, 1, 0>> >>),
      IntMat(<< <<0, 1, 0>>, <<1, 0, 0>>, <<0, 0, 1>> >>),
      << <<<<3, 5>>, <<-4, 5>>, Zero>>, <<<<4, 5>>, <<3, 5>>, Zero>>, <<Zero, Zero, One>> >>,
      << <<One, Zero, Zero>>, <<Zero, <<3, 5>>, <<4, 5>>>>, <<Zero, <<4, 5>>, <<-3, 5>>>> >> }

TGens == { IntMat(<< <<1>>, <<-2>>, <<3>> >>) }

\* the matrix of test2 (lines 128-136)
Test2K == UpperTri(2, 3, 1, 0, 10, 14)

Test2T == IntMat(<< <<231>>, <<223>>, <<-18>> >>)

Test2P == IntMat(<< <<2, 0, -10, 282>>, <<0, -3, -14, 417>>, <<0, 0, -1, -18>> >>)

Gens ==
    { [K0 |-> k0, R0 |-> r0, T0 |-> t0] : k0 \in KGens, r0 \in RotGens, t0 \in TGens }
    \cup { [K0 |-> k0, R0 |-> Ident, T0 |-> t0] : k0 \in SingGens, t0 \in TGens }
    \cup { [K0 |-> Test2K, R0 |-> RotTest2, T0 |-> Test2T] }

\* P = K0 [R0 | T0]
PMat(g) == MatMul(g.K0, Augment(g.R0, g.T0))

\* the scalars lambda of the second call
Lams == { Q(-2), <<1, 2>> }

\* ------------------------------------------------------------------------
\* State
\* ------------------------------------------------------------------------
VARIABLES
    pc,      \* position in KRT_from_P / rf_rq
    call,    \* number of calls started
    gen,     \* K0, R0, T0 the caller's matrix was built from
    lam,     \* the scalar the caller's matrix is multiplied by
    heap,    \* the arrays
    H,       \* KRT_from_P: view P[:, 0:N]
    q, r,    \* rf_rq: views on the factors
    K, R,    \* KRT_from_P: views
    C, T,    \* KRT_from_P: camera centre and translation
    k,       \* the value K[-1,-1] that K was divided by
    neg,     \* which of the two determinant tests were true in this call
    out,     \* the returned (K, R, T)
    prev     \* what the previous call returned

vars == <<pc, call, gen, lam, heap, H, q, r, K, R, C, T, k, neg, out, prev>>

Bufs == {"P", "q", "r", "K", "R"}

\* the matrix the caller passes in the current call
Pin == IF call <= 1 THEN PMat(gen) ELSE Scale(lam, PMat(gen))

Init ==
    /\ gen \in Gens
    /\ pc = "idle"
    /\ call = 0
    /\ lam = One
    /\ heap = [b \in Bufs |-> Null]
    /\ H = NoView /\ q = NoView /\ r = NoView /\ K = NoView /\ R = NoView
    /\ C = Null /\ T = Null /\ k = Null /\ neg = {}
    /\ out = Null /\ prev = Null

\* line 63: KRT_from_P(numpy.matrix(P)); lines 12-13: H = P[:, 0:N]
Call ==
    /\ pc = "idle"
    /\ call \in {0, 1}
    /\ call' = call + 1
    /\ \E l \in (IF call = 0 THEN {One} ELSE Lams) :
          /\ lam' = l
          /\ heap' = [heap EXCEPT !["P"] =
                        IF call = 0 THEN PMat(gen) ELSE Scale(l, PMat(gen))]
    /\ H' = SliceView(View("P"))
    /\ prev' = out
    /\ out' = Null
    /\ pc' = "rq_qr"
    /\ UNCHANGED <<gen, q, r, K, R, C, T, k, neg>>

\* lines 15, 44-50: P = P.T; q, r = qr(P[::-1, ::-1]); q = q.T[::-1, ::-1];
\* r = r.T[::-1, ::-1]
RqQR ==
    /\ pc = "rq_qr"
    /\ LET in == FlipView(TView(H))
       IN  \E f \in QRResults(ReadView(heap, in)) :
             /\ heap' = WriteView(WriteView(heap, QOut(in), f[1]), ROut(in), f[2])
             /\ q' = FlipView(TView(QOut(in)))
             /\ r' = FlipView(TView(ROut(in)))
    /\ pc' = "rq_canon"
    /\ UNCHANGED <<call, gen, lam, H, K, R, C, T, k, neg, out, prev>>

\* line 53: r[:,0] *= -1
CanonRRow(rv) == NegRow(rv, 1)

CanonR(rv) == NegCol(rv, 1)

\* line 54: q[0,:] *= -1
CanonQ(qv) == NegRow(qv, 1)

\* lines 52-55: if det(q) < 0: r[:,0] *= -1; q[0,:] *= -1; return r, q
RqCanon ==
    /\ pc = "rq_canon"
    /\ IF RLt0(Det3(ReadView(heap, q)))
       THEN LET h1 == WriteView(heap, r, CanonR(ReadView(heap, r)))
            IN  /\ heap' = WriteView(h1, q, CanonQ(ReadView(h1, q)))
                /\ neg' = {"q"}
       ELSE /\ heap' = heap
            /\ neg' = {}
    /\ K' = r
    /\ R' = q
    /\ q' = NoView
    /\ r' = NoView
    /\ pc' = "norm"
    /\ UNCHANGED <<call, gen, lam, H, C, T, k, out, prev>>

\* line 17: K /= K[-1,-1]
Normalize ==
    /\ pc = "norm"
    /\ LET Kv == ReadView(heap, K)
       IN  /\ k' = Kv[3][3]
           /\ heap' = WriteView(heap, K, DivBy(Kv, Kv[3][3]))
    /\ pc' = "sign"
    /\ UNCHANGED <<call, gen, lam, H, q, r, K, R, C, T, neg, out, prev>>

\* line 21: sg = numpy.diag(numpy.sign(numpy.diag(K)))
SignDiagNone(Kv) == Ident

SignDiag(Kv) ==
    Strict([i \in 1..3 |->
        Strict([j \in 1..3 |->
            IF i = j THEN RSign(Kv[i][i]) ELSE Zero],
            3)], 3)

\* lines 21-24: K = K * sg; R = sg * R  (new arrays; the factors of qr are
\* no longer referenced)
SignFix ==
    /\ pc = "sign"
    /\ LET Kv == ReadView(heap, K)
           Rv == ReadView(heap, R)
           sg == SignDiag(Kv)
       IN  heap' = [heap EXCEPT !["K"] = MatMul(Kv, sg),
                                !["R"] = MatMul(sg, Rv),
                                !["q"] = Null,
                                !["r"] = IF K.buf = "r" THEN Null ELSE @]
    /\ K' = View("K")
    /\ R' = View("R")
    /\ pc' = "detfix"
    /\ UNCHANGED <<call, gen, lam, H, q, r, C, T, k, neg, out, prev>>

\* lines 26-27: if det(R) < 0: R = -R
ProperRotNone(Rv) == Rv

ProperRot(Rv) == IF RLt0(Det3(Rv)) THEN MatNeg(Rv) ELSE Rv

DetFix ==
    /\ pc = "detfix"
    /\ heap' = [heap EXCEPT !["R"] = ProperRot(ReadView(heap, R))]
    /\ neg' = IF RLt0(Det3(ReadView(heap, R))) THEN neg \cup {"R"} ELSE neg
    /\ pc' = "solve"
    /\ UNCHANGED <<call, gen, lam, H, q, r, K, R, C, T, k, out, prev>>

\* line 29: C = numpy.linalg.lstsq(-H, P[:,-1])[0]
CentrePlus(Hv, p4) == Lstsq(Hv, p4)

Centre(Hv, p4) == Lstsq(MatNeg(Hv), p4)

Solve ==
    /\ pc = "solve"
    /\ C' = Centre(ReadView(heap, H), LastCol(heap["P"]))
    /\ pc' = "trans"
    /\ UNCHANGED <<call, gen, lam, heap, H, q, r, K, R, T, k, neg, out, prev>>

\* line 30: T = -R*C
TransPlus(Rv, Cv) == MatMul(Rv, Cv)

Trans(Rv, Cv) == MatMul(MatNeg(Rv), Cv)

Translate ==
    /\ pc = "trans"
    /\ T' = Trans(ReadView(heap, R), C)
    /\ pc' = "ret"
    /\ UNCHANGED <<call, gen, lam, heap, H, q, r, K, R, C, k, neg, out, prev>>

\* line 31: return K, R, T
Return ==
    /\ pc = "ret"
    /\ out' = <<ReadView(heap, K), ReadView(heap, R), T>>
    /\ heap' = [heap EXCEPT !["K"] = Null, !["R"] = Null]
    /\ H' = NoView /\ K' = NoView /\ R' = NoView
    /\ C' = Null /\ T' = Null /\ k' = Null /\ neg' = {}
    /\ pc' = "idle"
    /\ UNCHANGED <<call, gen, lam, q, r, prev>>

Next ==
    \/ Call
    \/ RqQR
    \/ RqCanon
    \/ Normalize
    \/ SignFix
    \/ DetFix
    \/ Solve
    \/ Translate
    \/ Return

Spec == Init /\ [][Next]_vars

\* ------------------------------------------------------------------------
\* Properties
\* ------------------------------------------------------------------------
\* the leading block of the caller's matrix, and its last column
HIn == Lead(Pin)

P4In == LastCol(Pin)

Nonsingular == Det3(HIn) # Zero

\* the values about to be returned (at line 31)
RetK == ReadView(heap, K)

RetR == ReadView(heap, R)

\* K [R | T]
Recomposed == MatMul(RetK, Augment(RetR, T))

\* A = mu B for one nonzero scalar mu
Proportional(A, B) ==
    \E i \in 1..Rows(B) : \E j \in 1..ColsOf(B) :
        /\ B[i][j] # Zero
        /\ IsFinite(A[i][j])
        /\ A[i][j] # Zero
        /\ A = Scale(RDiv(A[i][j], B[i][j]), B)

PositiveDiag(A) == RGt0(A[1][1]) /\ RGt0(A[2][2]) /\ RGt0(A[3][3])

\* the caller's matrix is K0 [R0 | T0] with K0 of positive diagonal and R0 a
\* proper rotation
Calibrated ==
    /\ call = 1
    /\ IsUpper(gen.K0) /\ PositiveDiag(gen.K0)
    /\ MatMul(gen.R0, Transpose(gen.R0)) = Ident
    /\ Det3(gen.R0) = One

\* C1: for P = K0 [R0 | T0] with K0 upper triangular of positive diagonal
\* and R0 a proper rotation, whatever factors qr picks, the K, R, T that
\* KRT_from_P returns satisfy K [R | T] = mu P for one nonzero scalar mu.
C1_Reconstruction ==
    (pc = "ret" /\ Calibrated) => Proportional(Recomposed, Pin)

C1_Witness ==
    /\ pc = "ret" /\ Calibrated
    /\ RLt0(k) /\ "R" \in neg
    /\ gen.R0[1][1] = <<3, 5>>

\* C2: every returned (K, R, T), for any input, has det(R) > 0, K upper
\* triangular with K[0,0] > 0, K[1,1] > 0 and K[2,2] = 1.
C2_CanonicalForm ==
    pc = "ret" =>
        /\ RGt0(Det3(RetR))
        /\ IsUpper(RetK)
        /\ RGt0(RetK[1][1]) /\ RGt0(RetK[2][2])
        /\ RetK[3][3] = One

\* C3: when P = K0 [R0 | T0] with K0 of positive diagonal, K0[2,2] = 1 and R0
\* a proper rotation, KRT_from_P returns exactly K0, R0, T0; the matrix of
\* test2 yields the K, R, T of its comment.
C3_ExactRecovery ==
    /\ (pc = "ret" /\ Calibrated /\ gen.K0[3][3] = One) =>
           (RetK = gen.K0 /\ RetR = gen.R0 /\ T = gen.T0)
    /\ (pc = "ret" /\ heap["P"] = Test2P) =>
           (RetK = Test2K /\ RetR = RotTest2 /\ T = Test2T)

C3_Witness ==
    /\ pc = "ret" /\ heap["P"] = Test2P
    /\ RLt0(k)
    /\ RetK = Test2K

\* C4: for P with nonsingular leading block and any nonzero lambda, negative
\* ones included, KRT_from_P(lambda P) returns what KRT_from_P(P) returned.
C4_ScaleInvariance ==
    (pc = "idle" /\ call = 2 /\ Nonsingular) => out = prev

C4_Witness ==
    /\ pc = "idle" /\ call = 2 /\ Nonsingular
    /\ RLt0(lam)
    /\ out # Null /\ out = prev

\* C5: for nonsingular A, whatever factors qr picks, rf_rq(A) returns (R, Q)
\* with R upper triangular, Q Q^T = I, det(Q) > 0 and R Q = A.
C5_RQRoundTrip ==
    (pc = "norm" /\ Nonsingular) =>
        /\ IsUpper(RetK)
        /\ MatMul(RetR, Transpose(RetR)) = Ident
        /\ RGt0(Det3(RetR))
        /\ MatMul(RetK, RetR) = ReadView(heap, H)

C5_Witness ==
    /\ pc = "norm" /\ Nonsingular
    /\ "q" \in neg
    /\ RetR[1][1] \notin {Zero, One, Q(-1)}
    /\ MatMul(RetK, RetR) = HIn

\* C6: when the leading block of P is singular, KRT_from_P fails and returns
\* no (K, R, T): it never reaches its return statement.
C6_SingularFails ==
    (call >= 1 /\ ~Nonsingular) => (pc # "ret" /\ out = Null)

\* C7: for nonsingular leading block, K [R | T] = P / k with k the
\* bottom-right entry of the triangular factor rf_rq returned.
C7_ScaleFactor ==
    (pc = "ret" /\ Nonsingular) => Recomposed = DivBy(Pin, k)

\* C7 as amended: K [R | T] = P / k when the proper-rotation fix left R as it
\* was, and -P / k when it negated R.
C7_ScaleFactorSigned ==
    (pc = "ret" /\ Nonsingular) =>
        Recomposed = (IF "R" \in neg THEN DivBy(Pin, RNeg(k)) ELSE DivBy(Pin, k))

C7_Witness ==
    /\ pc = "ret" /\ Nonsingular
    /\ "R" \in neg
    /\ k \notin {One, Q(-1)}
    /\ Recomposed = DivBy(Pin, RNeg(k))

\* C8: the caller's matrix P holds the same entries during and after a call
\* as before it.
C8_InputUnchanged ==
    call >= 1 => heap["P"] = Pin

C8_Witness ==
    /\ pc = "ret"
    /\ "q" \in neg
    /\ k # One
    /\ heap["P"] = Pin

\* C9: the step K <- K S, R <- S R leaves K R as it was and every diagonal
\* entry of K non-negative, for every scale-normalized K, a zero on its
\* diagonal included.
C9_SignStep ==
    [][(pc = "sign" /\ AllFinite(RetK) /\ RetK[3][3] = One) =>
          /\ MatMul(ReadView(heap', K'), ReadView(heap', R')) = MatMul(RetK, RetR)
          /\ \A i \in 1..3 : ~RLt0(ReadView(heap', K')[i][i])]_vars

\* C10: T is computed from the R that is returned: every result for a
\* nonsingular leading block satisfies T = -R C with H C = -p4, and
\* K [R | T] differs from P by a scalar factor only, also when the
\* proper-rotation fix negated R.
C10_TranslationAfterFix ==
    (pc = "ret" /\ Nonsingular) =>
        /\ MatMul(HIn, C) = MatNeg(P4In)
        /\ T = MatNeg(MatMul(RetR, C))
        /\ Proportional(Recomposed, Pin)

C10_Witness ==
    /\ pc = "ret" /\ Nonsingular
    /\ "R" \in neg
    /\ T = MatNeg(MatMul(RetR, C))
    /\ C # MatNeg(T)

====
